---- MODULE Spec2Model ----
(***************************************************************************)
(* Model of the MCP demonstration: the calculator server (server.py), the  *)
(* raw protocol client (client-sse.py) and the LLM-integrated client       *)
(* (client.py, MCPOpenAIClient driven by main).                            *)
(*                                                                         *)
(* One behaviour is one run of a client's main().  Every await of the code *)
(* is a step: the environment (transport, server, LLM provider) answers it *)
(* with a value or with an exception.                                      *)
(***************************************************************************)
EXTENDS Integers, Sequences, FiniteSets, TLC

\* Longest list of tool-call requests an LLM response carries in the model.
MaxCalls == 2

VARIABLES
    program,    \* which main() runs: "client" (client.py) or "sse" (client-sse.py)
    pc,         \* position of the run in the code
    conn,       \* the sse_client connection: "none", "open", "released"
    sess,       \* the ClientSession context: "none", "open", "closed"
    query,      \* the query string handed to process_query
    tools,      \* tools translated by get_mcp_tools (<<>> before the call)
    response,   \* assistant_message of the first LLM response
    final,      \* message of the follow-up LLM response
    messages,   \* the list `messages` of process_query
    idx,        \* position of the loop of _handle_tool_calls (1-based)
    sent,       \* history: the chat-completion requests issued, in order
    callLog,    \* history: the call-tool operations issued on the session
    sessOps,    \* history: the session operations issued, in order
    answer,     \* value returned by process_query / printed by client-sse
    error       \* exception that left the run, "none" if none

vars == <<program, pc, conn, sess, query, tools, response, final, messages,
          idx, sent, callLog, sessOps, answer, error>>

\* ------------------------------------------------------------------------
\* Values

NoAnswer == "<no answer>"
\* No LLM response received yet.
NoMessage == [role |-> "none", content |-> "", tool_calls |-> <<>>]

\* Query strings: the empty string and the query of main.
Queries == {"", "What's 1 plus 1?"}

\* Text contents an LLM message can carry.
Contents == {"text A", "text B"}

\* Integers the LLM puts in tool-call arguments.
ArgVals == {-7, 0, 12}

ToolCallIds == {"call_1", "call_2"}

\* A JSON document is modelled by its token sequence.
LBrace == [t |-> "{"]
RBrace == [t |-> "}"]
Key(k) == [t |-> "key", v |-> k]
Num(n) == [t |-> "int", n |-> n]

\* json.dumps of {"a": a, "b": b}
ArgsJson(a, b) == <<LBrace, Key("a"), Num(a), Key("b"), Num(b), RBrace>>
\* a document without "b"
ArgsMissingB(a) == <<LBrace, Key("a"), Num(a), RBrace>>
\* a truncated document
ArgsTruncated == <<LBrace, Key("a")>>

WellFormedJson(s) ==
    /\ Len(s) >= 2
    /\ s[1].t = "{"
    /\ s[Len(s)].t = "}"
    /\ (Len(s) - 2) % 2 = 0
    /\ \A i \in 1..((Len(s) - 2) \div 2) :
          /\ s[2 * i].t = "key"
          /\ s[2 * i + 1].t = "int"

\* json.loads: the mapping of the document, or JSONDecodeError.
JsonLoads(s) ==
    IF WellFormedJson(s)
    THEN LET n == (Len(s) - 2) \div 2
             keys == {s[2 * i].v : i \in 1..n}
             last(k) == CHOOSE i \in 1..n :
                           /\ s[2 * i].v = k
                           /\ \A j \in 1..n : s[2 * j].v = k => j <= i
         IN  [ok |-> TRUE, value |-> [k \in keys |-> s[2 * last(k) + 1].n]]
    ELSE [ok |-> FALSE, value |-> <<>>]

\* ------------------------------------------------------------------------
\* Server (server.py)

\* The tools registered on the FastMCP instance.
Registry == {"add"}

\* Mutant: the handler subtracts.
add_Subtracts(a, b) == a - b

\* The handler of the tool "add".
add(a, b) == a + b

Digit(d) == <<"0", "1", "2", "3", "4", "5", "6", "7", "8", "9">>[d + 1]

RECURSIVE NatToText(_)
NatToText(n) ==
    IF n < 10 THEN <<Digit(n)>>
    ELSE NatToText(n \div 10) \o <<Digit(n % 10)>>

\* The text content of an integer result.
IntToText(n) == IF n < 0 THEN <<"-">> \o NatToText(-n) ELSE NatToText(n)

\* The arguments satisfy the schema of add(a: int, b: int).
ValidArguments(args) == {"a", "b"} \subseteq DOMAIN args

UnknownToolText(name) == <<"Unknown tool: ", name>>
InvalidArgumentsText(name) == <<"Error executing tool ", name>>

\* A call-tool request served by the server: the handler's result as text, or
\* an error result.  ran: the handler was executed.
Invoke(name, args) ==
    IF name \notin Registry
    THEN [isError |-> TRUE, kind |-> "UnknownTool", ran |-> FALSE,
          text |-> UnknownToolText(name)]
    ELSE IF ~ValidArguments(args)
    THEN [isError |-> TRUE, kind |-> "InvalidArguments", ran |-> FALSE,
          text |-> InvalidArgumentsText(name)]
    ELSE [isError |-> FALSE, kind |-> "ok", ran |-> TRUE,
          text |-> IntToText(add(args["a"], args["b"]))]

\* list_tools of the server, as (name, description) descriptors.
ListTools ==
    <<[name |-> "add", description |-> "Add two numbers together",
       inputSchema |-> [a |-> "integer", b |-> "integer"]]>>

\* ------------------------------------------------------------------------
\* LLM provider

\* Tool-call requests an LLM response can carry.
ToolFunctions ==
    {[name |-> "add", arguments |-> ArgsJson(a, b)] : a \in ArgVals, b \in ArgVals}
    \cup {[name |-> "add", arguments |-> ArgsMissingB(0)],
          [name |-> "add", arguments |-> ArgsTruncated],
          [name |-> "sub", arguments |-> ArgsJson(0, 12)]}

ToolCallRequests ==
    {[id |-> i, function |-> f] : i \in ToolCallIds, f \in ToolFunctions}

RECURSIVE SeqsUpTo(_, _)
SeqsUpTo(S, n) ==
    IF n = 0 THEN {<<>>}
    ELSE LET shorter == SeqsUpTo(S, n - 1)
         IN  shorter \cup {Append(s, x) : s \in {t \in shorter : Len(t) = n - 1}, x \in S}

ToolCallLists == SeqsUpTo(ToolCallRequests, MaxCalls)

\* Messages a first response can carry.
FirstMessages ==
    {[role |-> "assistant", content |-> c, tool_calls |-> tc] :
        c \in Contents, tc \in ToolCallLists}

\* Messages a follow-up response can carry (the code reads only content).
FinalMessages ==
    {[role |-> "assistant", content |-> c, tool_calls |-> tc] :
        c \in Contents,
        tc \in {<<>>, <<[id |-> "call_1",
                         function |-> [name |-> "add", arguments |-> ArgsJson(0, 0)]]>>}}

\* ------------------------------------------------------------------------
\* Helpers of the run

UserMessage(q) == [role |-> "user", content |-> q]

\* Mutant: the tool message is keyed by the tool name, not the request id.
ToolMessage_KeyedByName(tool_call, result) ==
    [role |-> "tool", tool_call_id |-> tool_call.function.name,
     content |-> result.text]

\* The tool-role message appended for a request.
ToolMessage(tool_call, result) ==
    [role |-> "tool", tool_call_id |-> tool_call.id, content |-> result.text]

\* Mutant: tool use stays enabled.
ToolChoice_AlwaysAuto(allow_tool_calls) == "auto"

\* tool_choice of the request
ToolChoice(allow_tool_calls) == IF allow_tool_calls THEN "auto" ELSE "none"

\* Mutant: the check ignores the message history.
SendRaises_IgnoresMessages(q, msgs) == q = ""

\* `not messages and not query`: _send_to_openai raises ValueError
SendRaises(q, msgs) == msgs = <<>> /\ q = ""

\* Mutant: the request is always rebuilt from the query.
SendMessages_IgnoresHistory(q, msgs) == <<UserMessage(q)>>

\* the messages of the request _send_to_openai issues
SendMessages(q, msgs) == IF msgs = <<>> THEN <<UserMessage(q)>> ELSE msgs

\* Mutant: the early return is never taken.
NoToolCalls_Never(m) == FALSE

\* `not assistant_message.tool_calls`
NoToolCalls(m) == m.tool_calls = <<>>

\* Mutant: the loop stops before the last tool_call.
LoopHasNext_SkipsLast(i, tool_calls) == i < Len(tool_calls)

\* `for tool_call in tool_calls`: the loop has a tool_call at position i
LoopHasNext(i, tool_calls) == i <= Len(tool_calls)

\* Mutant: an exception leaves main without the contexts being exited.
Raise_NoUnwind(e) ==
    /\ error' = e
    /\ pc' = "exit"

\* An exception leaves the body of the two `async with` blocks.
Raise(e) ==
    /\ error' = e
    /\ pc' = "exit_session"

\* The body of the two `async with` blocks is left normally.
Return == pc' = "exit_session"

SessionOp(op) == sessOps' = Append(sessOps, op)

\* The tools of a list_tools result in OpenAI format.
OpenAiTools(descriptors) ==
    [i \in 1..Len(descriptors) |->
        [type |-> "function",
         function |-> [name |-> descriptors[i].name,
                       description |-> descriptors[i].description,
                       parameters |-> descriptors[i].inputSchema]]]

\* A call-tool operation as issued, awaiting its reply.
PendingCall(name, args) ==
    [name |-> name, arguments |-> args, outcome |-> "pending", ran |-> FALSE,
     text |-> <<>>, returned |-> FALSE]

\* The call-tool operation with the server's reply.
RepliedCall(call, result) ==
    [call EXCEPT !.outcome = result.kind, !.ran = result.ran, !.text = result.text,
                 !.returned = TRUE]

\* The call-tool operation lost to a transport failure.
LostCall(call) == [call EXCEPT !.outcome = "TransportError"]

\* The call-tool operation the server refused with a protocol error.
RefusedCall(call, result) == [call EXCEPT !.outcome = result.kind]

\* How `await self.session.call_tool(...)` can end for the reply `result` of
\* the server.  The session returns the call-tool result to its caller, also
\* when the server marks it as an error (isError: the error text is its
\* content); a server may refuse a failed request with a protocol error
\* instead, which the session raises; the transport may fail.
Deliveries(result) ==
    {"result", "TransportError"} \cup (IF result.isError THEN {"McpError"} ELSE {})

SetLast(log, entry) == [log EXCEPT ![Len(log)] = entry]

\* ------------------------------------------------------------------------
\* Initial state

Init ==
    /\ \/ program = "client" /\ query \in Queries
       \/ program = "sse" /\ query = ""
    /\ pc = "start"
    /\ conn = "none"
    /\ sess = "none"
    /\ tools = <<>>
    /\ response = NoMessage
    /\ final = NoMessage
    /\ messages = <<>>
    /\ idx = 0
    /\ sent = <<>>
    /\ callLog = <<>>
    /\ sessOps = <<>>
    /\ answer = NoAnswer
    /\ error = "none"

\* ------------------------------------------------------------------------
\* main(): the scoped connection and session

\* async with sse_client(...): the connection is made, or the attempt raises.
EnterSse ==
    /\ pc = "start"
    /\ \/ conn' = "open" /\ pc' = "enter_session" /\ UNCHANGED error
       \/ conn' = "none" /\ pc' = "exit" /\ error' = "TransportError"
    /\ UNCHANGED <<program, sess, query, tools, response, final, messages, idx,
                   sent, callLog, sessOps, answer>>

\* async with ClientSession(read_stream, write_stream) as session
EnterSession ==
    /\ pc = "enter_session"
    /\ sess' = "open"
    /\ pc' = "initialize"
    /\ UNCHANGED <<program, conn, query, tools, response, final, messages, idx,
                   sent, callLog, sessOps, answer, error>>

\* await session.initialize()
Initialize ==
    /\ pc = "initialize"
    /\ SessionOp("initialize")
    /\ \/ pc' = "list_tools" /\ UNCHANGED error
       \/ Raise("TransportError")
    /\ UNCHANGED <<program, conn, sess, query, tools, response, final, messages,
                   idx, sent, callLog, answer>>

\* await session.list_tools() and the printed tool list
ConnectListTools ==
    /\ pc = "list_tools"
    /\ SessionOp("list_tools")
    /\ \/ /\ pc' = IF program = "client" THEN "get_mcp_tools" ELSE "sse_call_tool"
          /\ UNCHANGED error
       \/ Raise("TransportError")
    /\ UNCHANGED <<program, conn, sess, query, tools, response, final, messages,
                   idx, sent, callLog, answer>>

\* __aexit__ of ClientSession
ExitSession ==
    /\ pc = "exit_session"
    /\ sess' = "closed"
    /\ pc' = "exit_sse"
    /\ UNCHANGED <<program, conn, query, tools, response, final, messages, idx,
                   sent, callLog, sessOps, answer, error>>

\* __aexit__ of sse_client
ExitSse ==
    /\ pc = "exit_sse"
    /\ conn' = "released"
    /\ pc' = "exit"
    /\ UNCHANGED <<program, sess, query, tools, response, final, messages, idx,
                   sent, callLog, sessOps, answer, error>>

\* ------------------------------------------------------------------------
\* client.py: process_query

\* tools = await self.get_mcp_tools()
GetMcpTools ==
    /\ pc = "get_mcp_tools"
    /\ SessionOp("list_tools")
    /\ \/ /\ tools' = OpenAiTools(ListTools)
          /\ pc' = "send_first"
          /\ UNCHANGED error
       \/ Raise("TransportError") /\ UNCHANGED tools
    /\ UNCHANGED <<program, conn, sess, query, response, final, messages, idx,
                   sent, callLog, answer>>

\* self._send_to_openai(query, [], tools, True) up to the request it issues
SendFirst ==
    /\ pc = "send_first"
    /\ IF SendRaises(query, <<>>)
       THEN Raise("ValueError") /\ UNCHANGED sent
       ELSE /\ sent' = Append(sent, [messages |-> SendMessages(query, <<>>),
                                     tools |-> tools,
                                     tool_choice |-> ToolChoice(TRUE)])
            /\ pc' = "await_first"
            /\ UNCHANGED error
    /\ UNCHANGED <<program, conn, sess, query, tools, response, final, messages,
                   idx, callLog, sessOps, answer>>

\* the first response arrives: assistant_message, messages, the branch on
\* tool_calls
FirstResponse ==
    /\ pc = "await_first"
    /\ \/ \E m \in FirstMessages :
            /\ response' = m
            /\ messages' = <<UserMessage(query), m>>
            /\ IF NoToolCalls(m)
               THEN answer' = m.content /\ Return /\ UNCHANGED idx
               ELSE idx' = 1 /\ pc' = "handle_tool_calls" /\ UNCHANGED answer
            /\ UNCHANGED error
       \/ Raise("ProviderError") /\ UNCHANGED <<response, messages, idx, answer>>
    /\ UNCHANGED <<program, conn, sess, query, tools, final, sent, callLog,
                   sessOps>>

\* _handle_tool_calls: the next tool_call of the loop, up to the call-tool
\* operation it issues
DispatchToolCall ==
    /\ pc = "handle_tool_calls"
    /\ LoopHasNext(idx, response.tool_calls)
    /\ LET tool_call == response.tool_calls[idx]
           loaded == JsonLoads(tool_call.function.arguments)
       IN  IF ~loaded.ok
           THEN Raise("JSONDecodeError") /\ UNCHANGED <<callLog, sessOps>>
           ELSE /\ callLog' = Append(callLog,
                                     PendingCall(tool_call.function.name, loaded.value))
                /\ SessionOp("call_tool")
                /\ pc' = "await_tool"
                /\ UNCHANGED error
    /\ UNCHANGED <<program, conn, sess, query, tools, response, final, messages,
                   idx, sent, answer>>

\* the call-tool reply arrives: the tool message is appended
ToolReturn ==
    /\ pc = "await_tool"
    /\ LET call == callLog[Len(callLog)]
           result == Invoke(call.name, call.arguments)
       IN  \E delivery \in Deliveries(result) :
             IF delivery = "result"
             THEN /\ callLog' = SetLast(callLog, RepliedCall(call, result))
                  /\ messages' = Append(messages,
                                        ToolMessage(response.tool_calls[idx], result))
                  /\ idx' = idx + 1
                  /\ pc' = "handle_tool_calls"
                  /\ UNCHANGED error
             ELSE /\ callLog' = SetLast(callLog,
                                        IF delivery = "McpError"
                                        THEN RefusedCall(call, result)
                                        ELSE LostCall(call))
                  /\ Raise(delivery)
                  /\ UNCHANGED <<messages, idx>>
    /\ UNCHANGED <<program, conn, sess, query, tools, response, final, sent,
                   sessOps, answer>>

\* the loop is over: self._send_to_openai("", messages, tools, False) up to
\* the request it issues
SendFollowUp ==
    /\ pc = "handle_tool_calls"
    /\ ~LoopHasNext(idx, response.tool_calls)
    /\ IF SendRaises("", messages)
       THEN Raise("ValueError") /\ UNCHANGED sent
       ELSE /\ sent' = Append(sent, [messages |-> SendMessages("", messages),
                                     tools |-> tools,
                                     tool_choice |-> ToolChoice(FALSE)])
            /\ pc' = "await_final"
            /\ UNCHANGED error
    /\ UNCHANGED <<program, conn, sess, query, tools, response, final, messages,
                   idx, callLog, sessOps, answer>>

\* the follow-up response arrives: its content is returned
FinalResponse ==
    /\ pc = "await_final"
    /\ \/ \E m \in FinalMessages :
            /\ final' = m
            /\ answer' = m.content
            /\ Return
            /\ UNCHANGED error
       \/ Raise("ProviderError") /\ UNCHANGED <<final, answer>>
    /\ UNCHANGED <<program, conn, sess, query, tools, response, messages, idx,
                   sent, callLog, sessOps>>

\* ------------------------------------------------------------------------
\* client-sse.py: the direct call

\* session.call_tool("add", arguments={"a": 2, "b": 3}) is issued
SseCallTool ==
    /\ pc = "sse_call_tool"
    /\ callLog' = Append(callLog, PendingCall("add", [a |-> 2, b |-> 3]))
    /\ SessionOp("call_tool")
    /\ pc' = "sse_await_tool"
    /\ UNCHANGED <<program, conn, sess, query, tools, response, final, messages,
                   idx, sent, answer, error>>

\* the reply arrives and result.content[0].text is printed
SseToolReturn ==
    /\ pc = "sse_await_tool"
    /\ LET call == callLog[Len(callLog)]
           result == Invoke(call.name, call.arguments)
       IN  \E delivery \in Deliveries(result) :
             IF delivery = "result"
             THEN /\ callLog' = SetLast(callLog, RepliedCall(call, result))
                  /\ Return
                  /\ UNCHANGED error
             ELSE /\ callLog' = SetLast(callLog,
                                        IF delivery = "McpError"
                                        THEN RefusedCall(call, result)
                                        ELSE LostCall(call))
                  /\ Raise(delivery)
    /\ UNCHANGED <<program, conn, sess, query, tools, response, final, messages,
                   idx, sent, sessOps, answer>>

Next ==
    \/ EnterSse
    \/ EnterSession
    \/ Initialize
    \/ ConnectListTools
    \/ GetMcpTools
    \/ SendFirst
    \/ FirstResponse
    \/ DispatchToolCall
    \/ ToolReturn
    \/ SendFollowUp
    \/ FinalResponse
    \/ SseCallTool
    \/ SseToolReturn
    \/ ExitSession
    \/ ExitSse

Spec == Init /\ [][Next]_vars

\* ------------------------------------------------------------------------
\* Properties

Exiting == pc \in {"exit_session", "exit_sse", "exit"}

\* The tool-role messages of the history, in order.
ToolMessages == SelectSeq(messages, LAMBDA m : m.role = "tool")

IsPrefix(s, t) ==
    /\ Len(s) <= Len(t)
    /\ \A i \in 1..Len(s) : s[i] = t[i]

DigitVal(c) == CHOOSE d \in 0..9 : Digit(d) = c

RECURSIVE TextToNat(_)
TextToNat(t) ==
    IF Len(t) = 1 THEN DigitVal(t[1])
    ELSE 10 * TextToNat(SubSeq(t, 1, Len(t) - 1)) + DigitVal(t[Len(t)])

\* The integer a decimal text denotes.
TextToInt(t) == IF t[1] = "-" THEN 0 - TextToNat(Tail(t)) ELSE TextToNat(t)

\* Every call-tool operation of the turn was issued and returned a result
\* of the handler.
AllDispatchesSucceeded ==
    /\ Len(callLog) = Len(response.tool_calls)
    /\ \A i \in 1..Len(callLog) : callLog[i].outcome = "ok"

\* C1: once the follow-up LLM call is issued, every tool-call request of the
\* first response has exactly one tool-role message (the i-th tool message
\* answers the i-th request) and was dispatched exactly once; before that the
\* requests answered and dispatched never outnumber the requests.
C1_EveryRequestAnsweredOnce ==
    program = "client" =>
        /\ Len(ToolMessages) <= Len(response.tool_calls)
        /\ Len(callLog) <= Len(response.tool_calls)
        /\ Len(sent) >= 2 =>
              /\ response.tool_calls # <<>>
              /\ Len(ToolMessages) = Len(response.tool_calls)
              /\ Len(callLog) = Len(response.tool_calls)
              /\ SelectSeq(sent[2].messages, LAMBDA m : m.role = "tool") = ToolMessages
              /\ \A i \in 1..Len(response.tool_calls) :
                    /\ ToolMessages[i].tool_call_id = response.tool_calls[i].id
                    /\ callLog[i].name = response.tool_calls[i].function.name
                    /\ callLog[i].returned

C1_Witness ==
    /\ Len(sent) = 2
    /\ Len(response.tool_calls) = 2
    /\ response.tool_calls[1].id # response.tool_calls[2].id
    /\ Len(ToolMessages) = 2

\* C2: a run whose first response requests tool calls and whose dispatches
\* all succeed issues exactly two LLM requests, the second with tool_choice
\* "none"; the content of the second response is the answer whatever else the
\* response carries; there is never a third request nor a dispatch beyond the
\* requests of the first response.
C2_TwoRoundTrips ==
    /\ Len(sent) <= 2
    /\ Len(callLog) <= IF program = "client" THEN Len(response.tool_calls) ELSE 1
    /\ Len(sent) = 2 => sent[2].tool_choice = "none" /\ sent[1].tool_choice = "auto"
    /\ final # NoMessage =>
          /\ Exiting
          /\ Len(sent) = 2
          /\ answer = final.content
          /\ error = "none"
    /\ (/\ program = "client"
        /\ response.tool_calls # <<>>
        /\ AllDispatchesSucceeded
        /\ pc = "exit") =>
          /\ Len(sent) = 2
          /\ error \in {"none", "ProviderError"}
          /\ error = "none" => final # NoMessage

C2_Witness ==
    /\ pc = "exit"
    /\ response.tool_calls # <<>>
    /\ AllDispatchesSucceeded
    /\ Len(sent) = 2
    /\ final.tool_calls # <<>>
    /\ answer = final.content
    /\ answer # response.content

\* C3: when the first response carries no tool-call requests the run is at
\* Done: the content of that response is the answer, one LLM request was
\* issued, no call-tool operation was issued on the session and there is no
\* follow-up.
C3_NoToolCallsDirectlyDone ==
    (response # NoMessage /\ response.tool_calls = <<>>) =>
        /\ Exiting
        /\ answer = response.content
        /\ error = "none"
        /\ Len(sent) = 1
        /\ callLog = <<>>
        /\ \A i \in 1..Len(sessOps) : sessOps[i] # "call_tool"
        /\ final = NoMessage

C3_Witness ==
    /\ response # NoMessage
    /\ response.tool_calls = <<>>
    /\ pc = "exit"
    /\ answer = response.content

\* C4: the requests are dispatched one at a time in the order of the
\* response: the i-th call-tool operation is issued only when i-1 tool
\* messages are appended, the tool messages follow the user and assistant
\* messages in the order of the requests, and the i-th tool message carries
\* the id of the i-th request and the result text of the i-th operation,
\* which was issued with the name and the arguments of the i-th request.
C4_SequentialInOrder ==
    program = "client" =>
        /\ Len(callLog) \in {Len(ToolMessages), Len(ToolMessages) + 1}
        /\ pc = "await_tool" => Len(callLog) = Len(ToolMessages) + 1
        /\ Len(callLog) = Len(ToolMessages) + 1 =>
              ~callLog[Len(callLog)].returned
        /\ \A i \in 1..Len(callLog) :
              /\ callLog[i].name = response.tool_calls[i].function.name
              /\ callLog[i].arguments
                    = JsonLoads(response.tool_calls[i].function.arguments).value
        /\ \A i \in 1..Len(ToolMessages) :
              /\ messages[2 + i] = ToolMessages[i]
              /\ ToolMessages[i].tool_call_id = response.tool_calls[i].id
              /\ ToolMessages[i].content = callLog[i].text
              /\ callLog[i].returned

C4_Witness ==
    /\ pc = "await_tool"
    /\ Len(callLog) = 2
    /\ Len(ToolMessages) = 1
    /\ response.tool_calls[1].id # response.tool_calls[2].id
    /\ response.tool_calls[1].function # response.tool_calls[2].function

\* A failure happened while the query was processed: an exception was raised,
\* or a call-tool operation ended in UnknownTool, InvalidArguments or a
\* transport error.
FailedCalls ==
    {i \in 1..Len(callLog) :
        callLog[i].outcome \in {"UnknownTool", "InvalidArguments", "TransportError"}}

\* C5: a failure aborts the query: it surfaces as an exception, the failed
\* operation is the last call-tool operation issued, no follow-up LLM request
\* is issued after it and no answer is returned.
C5_FailureAbortsQuery ==
    /\ error # "none" => Exiting /\ answer = NoAnswer
    /\ \A i \in FailedCalls :
          /\ error # "none"
          /\ i = Len(callLog)
          /\ Len(sent) <= 1
          /\ answer = NoAnswer

\* The follow-up request carries exactly the user message with the
\* query, the assistant message of the first response and the tool messages;
\* every step extends the history: what the first request carried is a prefix
\* of `messages`, and `messages` only grows at its end.
C6_FollowUpHistory ==
    /\ (sent # <<>> /\ messages # <<>>) => IsPrefix(sent[1].messages, messages)
    /\ Len(sent) >= 2 =>
          /\ sent[2].messages = messages
          /\ Len(messages) = 2 + Len(response.tool_calls)
          /\ messages[1] = UserMessage(query)
          /\ messages[2] = response
          /\ \A i \in 3..Len(messages) : messages[i].role = "tool"

C6_AppendOnly == [][IsPrefix(messages, messages')]_vars

\* C6: the follow-up request carries exactly the user message, the assistant
\* message and the tool messages, and the history is append-only.
C6_HistoryAppendOnly == []C6_FollowUpHistory /\ C6_AppendOnly

C6_Witness ==
    /\ Len(sent) = 2
    /\ Len(sent[2].messages) = 4
    /\ sent[2].messages[3] # sent[2].messages[4]

\* C7: a call-tool operation "add" with integers a and b that returns,
\* returns a + b as decimal text, the tool message appended for it has that
\* text as content, and call_tool("add", {a: 2, b: 3}) gives "5".
C7_AddReturnsSum ==
    /\ \A i \in 1..Len(callLog) :
          (/\ callLog[i].name = "add"
           /\ {"a", "b"} \subseteq DOMAIN callLog[i].arguments
           /\ callLog[i].returned) =>
              /\ callLog[i].outcome = "ok"
              /\ callLog[i].ran
              /\ TextToInt(callLog[i].text)
                    = callLog[i].arguments["a"] + callLog[i].arguments["b"]
              /\ program = "client" =>
                    /\ Len(ToolMessages) >= i
                    /\ TextToInt(ToolMessages[i].content)
                          = callLog[i].arguments["a"] + callLog[i].arguments["b"]
    /\ (program = "sse" /\ pc = "exit" /\ error = "none") =>
          callLog[1].text = <<"5">>

C7_Witness ==
    /\ program = "client"
    /\ Len(ToolMessages) = 2
    /\ ToolMessages[1].content = <<"-", "1", "4">>
    /\ ToolMessages[2].content = <<"2", "4">>

\* C8: a call-tool operation naming an unregistered tool ends in UnknownTool,
\* an error and not a result, without the handler being executed, and no
\* tool message is appended for its request.
C8_UnknownToolNoMessage ==
    \A i \in 1..Len(callLog) :
        (/\ callLog[i].name \notin Registry
         /\ callLog[i].outcome \notin {"pending", "TransportError"}) =>
            /\ callLog[i].outcome = "UnknownTool"
            /\ ~callLog[i].ran
            /\ Len(ToolMessages) < i

\* Session operations are issued only while the connection is open; at
\* the exit of main the connection is not held: it is released whenever it
\* was acquired, with or without an exception, and no session operation
\* follows the release.
C9_ConnectionAtExit ==
    /\ sessOps # <<>> => conn # "none"
    /\ sess = "open" => conn = "open"
    /\ pc = "exit" =>
          /\ conn # "open"
          /\ sess # "open"
          /\ conn = "none" => (sessOps = <<>> /\ error = "TransportError")

C9_OpsWhileOpen ==
    [][/\ sessOps' # sessOps => (conn = "open" /\ sess = "open" /\ conn' = "open")
       /\ conn = "released" => (conn' = "released" /\ sessOps' = sessOps)
       /\ conn = "open" => conn' \in {"open", "released"}]_vars

\* C9: the connection is acquired before any session operation and is
\* released on every path out of main, after which no session operation
\* is issued.
C9_ScopedConnection == []C9_ConnectionAtExit /\ C9_OpsWhileOpen

C9_Witness ==
    /\ pc = "exit"
    /\ conn = "released"
    /\ error = "TransportError"
    /\ Len(sessOps) = 5

\* C10: process_query with an empty query fetches the tools and then raises
\* ValueError without any LLM request or call-tool operation; ValueError is
\* raised in no other case, so never by the follow-up call.
C10_EmptyQueryValueError ==
    /\ (program = "client" /\ query = "") =>
          /\ sent = <<>>
          /\ callLog = <<>>
          /\ answer = NoAnswer
          /\ (tools # <<>> /\ pc # "send_first") => error = "ValueError"
    /\ error = "ValueError" =>
          /\ program = "client"
          /\ query = ""
          /\ tools # <<>>
          /\ sent = <<>>
    /\ (pc = "handle_tool_calls" /\ ~LoopHasNext(idx, response.tool_calls)) =>
          ~SendRaises("", messages)
    /\ pc = "await_final" => Len(sent) = 2

C10_Witness ==
    /\ query = ""
    /\ error = "ValueError"
    /\ tools # <<>>
    /\ sessOps = <<"initialize", "list_tools", "list_tools">>
    /\ pc = "exit"

====
